---- MODULE Spec2Model ----
(***************************************************************************)
(* Volleyball scheduler: the three generation variants of the repository   *)
(* (App.js: fixed opening + load-balanced greedy; part_000: plain greedy;  *)
(* part_001: fixed opening + seeded shuffle + greedy) and the React        *)
(* component around each of them (state, effects, localStorage, handlers). *)
(***************************************************************************)
EXTENDS Integers, Sequences, FiniteSets, TLC

VARIABLES
    variant,        \* which source file is running: "App.js", "part_000", "part_001"
    \* ---- the component (React state, storage) ----
    teamCount,      \* useState teamCount
    rounds,         \* useState rounds
    completedMatches, \* useState completedMatches (part_001): roundIndex -> court indexes
    playCounts,     \* useState playCounts (part_001)
    localStorage,   \* window.localStorage: key -> stored string (or NoItem)
    lastEvent,      \* history: the last user event handled
    firstGenerated, \* history: team count -> the schedule first generated for it
    \* ---- one run of the generator, statement by statement ----
    gN,             \* the team count the run is for
    gPc,            \* position in the generator's code
    gRun,           \* 1 for the first call, 2 for a repeated call
    gRemaining,     \* remainingPairs / remaining
    gRounds,        \* rounds (the list being built)
    gCount,         \* matchesCount (App.js scheduleRounds)
    gPlayed,        \* playedPairs (App.js scheduleRounds)
    gPrng,          \* the state `a` captured by the mulberry32 closure
    gArr,           \* arr of seededShuffle
    gM,             \* m of seededShuffle
    gSchedule,      \* the value returned by the run
    gFirst          \* the value returned by the first call

appVars == <<teamCount, rounds, completedMatches, playCounts, localStorage,
             lastEvent, firstGenerated>>
genVars == <<gN, gPc, gRun, gRemaining, gRounds, gCount, gPlayed, gPrng, gArr,
             gM, gSchedule, gFirst>>
vars == <<variant, appVars, genVars>>

Variants == {"App.js", "part_000", "part_001"}

\* The team counts the program supports.
MinTeams == 4
MaxTeams == 15
\* Courts per round.
COURTS == 2

(***************************************************************************)
(* Sequence helpers.                                                       *)
(***************************************************************************)
RECURSIVE Flatten(_)
Flatten(ss) == IF ss = <<>> THEN <<>> ELSE Head(ss) \o Flatten(Tail(ss))

RemoveAt(s, i) == SubSeq(s, 1, i - 1) \o SubSeq(s, i + 1, Len(s))

(***************************************************************************)
(* 32-bit machine words, as <<high 16 bits, low 16 bits>>, so that no      *)
(* intermediate value reaches 2^31.                                        *)
(***************************************************************************)
W16 == 2 ^ 16

Word(n) == <<n \div W16, n % W16>>

RECURSIVE Xor16(_, _, _)
Xor16(x, y, n) ==
    IF n = 0 THEN 0
    ELSE ((x + y) % 2) + 2 * Xor16(x \div 2, y \div 2, n - 1)

RECURSIVE Or16(_, _, _)
Or16(x, y, n) ==
    IF n = 0 THEN 0
    ELSE (IF x % 2 = 1 \/ y % 2 = 1 THEN 1 ELSE 0)
         + 2 * Or16(x \div 2, y \div 2, n - 1)

\* a ^ b
Xor32(a, b) == <<Xor16(a[1], b[1], 16), Xor16(a[2], b[2], 16)>>
\* a | b
Or32(a, b) == <<Or16(a[1], b[1], 16), Or16(a[2], b[2], 16)>>
\* a >>> k, for 0 < k < 16
Shr32(a, k) ==
    LET p == 2 ^ k
    IN  <<a[1] \div p, (a[2] \div p) + (a[1] % p) * (W16 \div p)>>
\* (a + b) mod 2^32
Add32(a, b) ==
    LET lo == a[2] + b[2]
    IN  <<(a[1] + b[1] + lo \div W16) % W16, lo % W16>>
\* x * y mod 2^16, for 16-bit x and y
MulMod16(x, y) == ((x % 256) * y + (((x \div 256) * y) % 256) * 256) % W16
\* Math.imul(a, b): the low 32 bits of the product
Imul(a, b) ==
    LET p  == (a[2] % 256) * b[2]
        q  == (a[2] \div 256) * b[2]
        lw == p + (q % 256) * 256
        cy == lw \div W16 + q \div 256
    IN  <<(cy + MulMod16(a[1], b[2]) + MulMod16(a[2], b[1])) % W16, lw % W16>>

(***************************************************************************)
(* part_001: mulberry32 and seededShuffle.                                 *)
(***************************************************************************)
\* The increment 0x6d2b79f5.
MulberryStep == <<27947, 31221>>

\* mulberry32(a): the closure's initial captured state.  (`a` is a double in
\* the source and grows without wrapping, but only its low 32 bits are ever
\* read, by ^ and >>>, and it stays far below 2^53.)
mulberry32Shared(a) == IF gRun = 1 THEN Word(a) ELSE gPrng
mulberry32(a) == Word(a)

\* One call of the closure, statement by statement; the result is the new
\* captured state and the 32-bit numerator of the fraction returned.
\* return ((t ^ (t >>> 14)) >>> 0) / 4294967296
mulberryReturn(a1, t) == [a |-> a1, out |-> Xor32(t, Shr32(t, 14))]

\* t ^= t + Math.imul(t ^ (t >>> 7), t | 61)
mulberryMix(a1, t) ==
    mulberryReturn(a1,
        Xor32(t, Add32(t, Imul(Xor32(t, Shr32(t, 7)), Or32(t, <<0, 61>>)))))

\* t = Math.imul(t ^ (t >>> 15), t | 1)
mulberryScramble(a1) ==
    mulberryMix(a1, Imul(Xor32(a1, Shr32(a1, 15)), Or32(a1, <<0, 1>>)))

\* var t = (a += 0x6d2b79f5)
mulberry32Call(a) == mulberryScramble(Add32(a, MulberryStep))

\* Math.floor((x / 4294967296) * m) for the 32-bit x and 0 < m < 2^15
FloorScale(x, m) == (x[1] * m + (x[2] * m) \div W16) \div W16

\* t = arr[m]; arr[m] = arr[i]; arr[i] = t, with m already decremented
\* (arr is indexed from 1 here, so index k of the source is k + 1)
shuffleSwap(arr, m1, i, a1) ==
    [arr |-> [arr EXCEPT ![m1 + 1] = arr[i + 1], ![i + 1] = arr[m1 + 1]],
     m |-> m1, a |-> a1]

\* i = Math.floor(random() * m--), c being the result of random()
shuffleDraw(arr, m, c) == shuffleSwap(arr, m - 1, FloorScale(c.out, m), c.a)

\* One iteration of seededShuffle's while loop on (arr, m, a).
shuffleStep(arr, m, a) == shuffleDraw(arr, m, mulberry32Call(a))

RECURSIVE shuffleLoop(_, _, _)
shuffleNext(s) == shuffleLoop(s.arr, s.m, s.a)

shuffleLoop(arr, m, a) ==
    IF m = 0 THEN arr ELSE shuffleNext(shuffleStep(arr, m, a))

seededShuffle(array, seed) == shuffleLoop(array, Len(array), mulberry32(seed))

(***************************************************************************)
(* Pair generation (App.js and part_000 generatePairs, part_001            *)
(* generateAllPairs).                                                      *)
(***************************************************************************)
pairsOfRowDown(i, n) == [k \in 1..(n - i) |-> <<i, n + 1 - k>>]

\* The inner loop for one i: the pairs (i, j) with i < j <= n.
pairsOfRow(i, n) == [k \in 1..(n - i) |-> <<i, i + k>>]

\* The outer loop from i on.
RECURSIVE pairsFrom(_, _)
pairsFrom(i, n) ==
    IF i > n THEN <<>> ELSE pairsOfRow(i, n) \o pairsFrom(i + 1, n)

generatePairs(n) == pairsFrom(1, n)

generateAllPairs(n) == pairsFrom(1, n)

normalizePair(p) == IF p[1] < p[2] THEN p ELSE <<p[2], p[1]>>

\* A match object of App.js / part_000.
Match(p) == [teams |-> p, complete |-> FALSE]

\* findIndex(([x, y]) => same unordered pair as t): 0 when absent
RECURSIVE findPair(_, _, _)
findPair(s, t, i) ==
    IF i > Len(s) THEN 0
    ELSE IF s[i] = t \/ s[i] = <<t[2], t[1]>> THEN i
    ELSE findPair(s, t, i + 1)

\* const idx = findIndex(...); if (idx !== -1) splice(idx, 1)
removePair(s, t) ==
    LET idx == findPair(s, t, 1) IN IF idx = 0 THEN s ELSE RemoveAt(s, idx)

(***************************************************************************)
(* App.js scheduleRounds.                                                  *)
(***************************************************************************)
\* round1
round1Swapped == <<[teams |-> <<3, 4>>, complete |-> FALSE],
                   [teams |-> <<1, 2>>, complete |-> FALSE]>>
round1 == <<Match(<<1, 2>>), Match(<<3, 4>>)>>

\* allPairs.filter(...): the pairs of round 1 taken out, in either order
isRound1Pair(p) ==
    \/ (p[1] = 1 /\ p[2] = 2) \/ (p[1] = 2 /\ p[2] = 1)
    \/ (p[1] = 3 /\ p[2] = 4) \/ (p[1] = 4 /\ p[2] = 3)

notRound1Pair(p) == ~isRound1Pair(p)

initialRemaining(n) == SelectSeq(generatePairs(n), notRound1Pair)

\* matchesCount after the pre-increment of teams 1 to 4
initialMatchesCount(n) ==
    [i \in (1..n) \cup {1, 2, 3, 4} |-> IF i \in {1, 2, 3, 4} THEN 1 ELSE 0]

\* playedPairs after round 1 (the keys `${a}-${b}` as <<a, b>>)
initialPlayedPairs == {<<1, 2>>, <<2, 1>>, <<3, 4>>, <<4, 3>>}

pairSum(p, count) == count[p[1]] + count[p[2]]

\* remainingPairs.sort((a, b) => aSum - bSum): Array.prototype.sort is stable,
\* so the result lists the pairs by ascending sum, equal sums in their
\* previous order.
RECURSIVE sortFrom(_, _, _, _)
sortFrom(s, count, k, top) ==
    IF k > top THEN <<>>
    ELSE LET hasSum(p) == pairSum(p, count) = k
         IN  SelectSeq(s, hasSum) \o sortFrom(s, count, k + 1, top)

sortBySumTiesReversed(s, count) ==
    sortFrom([k \in 1..Len(s) |-> s[Len(s) + 1 - k]], count, 0,
             2 * Cardinality(DOMAIN count))

\* No team has more than n - 1 matches, so no sum exceeds 2n.
sortBySum(s, count) == sortFrom(s, count, 0, 2 * Cardinality(DOMAIN count))

\* The for loop of one round: scan position i of the sorted list.
RECURSIVE scanBalanced(_, _, _, _, _, _)
scanBalanced(rem, i, round, used, played, count) ==
    IF i > Len(rem) THEN [round |-> round, played |-> played, count |-> count]
    ELSE
      LET a == rem[i][1]
          b == rem[i][2]
          ok == a \notin used /\ b \notin used /\ <<a, b>> \notin played
          round1x == IF ok THEN Append(round, Match(<<a, b>>)) ELSE round
          used1 == IF ok THEN used \cup {a, b} ELSE used
          played1 == IF ok THEN played \cup {<<a, b>>, <<b, a>>} ELSE played
          count1 == IF ok THEN [count EXCEPT ![a] = @ + 1, ![b] = @ + 1] ELSE count
      IN  IF Len(round1x) = COURTS
          THEN [round |-> round1x, played |-> played1, count |-> count1]
          ELSE scanBalanced(rem, i + 1, round1x, used1, played1, count1)

removeAllKept(rem, round) == rem

\* round.forEach(({ teams }) => { findIndex; splice })
RECURSIVE removeAll(_, _)
removeAll(rem, round) ==
    IF round = <<>> THEN rem
    ELSE removeAll(removePair(rem, Head(round).teams), Tail(round))

\* The end of one iteration, sc being the result of the for loop: `break`
\* when the round is short, else the round's pairs are removed and the round
\* is pushed.
balancedRound(sorted, rs, sc) ==
    [stop |-> Len(sc.round) < 2,
     remaining |-> IF Len(sc.round) < 2 THEN sorted ELSE removeAll(sorted, sc.round),
     rounds |-> IF Len(sc.round) < 2 THEN rs ELSE Append(rs, sc.round),
     count |-> sc.count, played |-> sc.played]

balancedScan(sorted, rs, count, played) ==
    balancedRound(sorted, rs, scanBalanced(sorted, 1, <<>>, {}, played, count))

\* One iteration of the while loop on (remainingPairs, rounds, matchesCount,
\* playedPairs); stop is TRUE when the iteration ends with `break`.
balancedStep(rem, rs, count, played) ==
    balancedScan(sortBySum(rem, count), rs, count, played)

RECURSIVE balancedLoop(_, _, _, _)
balancedNext(s) ==
    IF s.stop THEN s.rounds
    ELSE balancedLoop(s.remaining, s.rounds, s.count, s.played)

balancedLoop(rem, rs, count, played) ==
    IF Len(rem) = 0 THEN rs ELSE balancedNext(balancedStep(rem, rs, count, played))

scheduleRounds(n) ==
    balancedLoop(initialRemaining(n), <<round1>>, initialMatchesCount(n),
                 initialPlayedPairs)

(***************************************************************************)
(* part_000 groupRounds.                                                   *)
(***************************************************************************)
RECURSIVE scanPlainNoUsed(_, _, _, _)
scanPlainNoUsed(rem, i, round, used) ==
    IF i > Len(rem) THEN round
    ELSE LET round1x == Append(round, rem[i])
         IN  IF Len(round1x) = COURTS THEN round1x
             ELSE scanPlainNoUsed(rem, i + 1, round1x, used)

\* The for loop of one round over `remaining` (match objects).
RECURSIVE scanPlain(_, _, _, _)
scanPlain(rem, i, round, used) ==
    IF i > Len(rem) THEN round
    ELSE
      LET a == rem[i].teams[1]
          b == rem[i].teams[2]
          ok == a \notin used /\ b \notin used
          round1x == IF ok THEN Append(round, rem[i]) ELSE round
          used1 == IF ok THEN used \cup {a, b} ELSE used
      IN  IF Len(round1x) = COURTS THEN round1x
          ELSE scanPlain(rem, i + 1, round1x, used1)

\* findIndex over match objects, by unordered pair: 0 when absent
RECURSIVE findMatch(_, _, _)
findMatch(s, t, i) ==
    IF i > Len(s) THEN 0
    ELSE IF s[i].teams = t \/ s[i].teams = <<t[2], t[1]>> THEN i
    ELSE findMatch(s, t, i + 1)

removeUsedFirstOnly(rem, round) ==
    IF round = <<>> THEN rem
    ELSE LET index == findMatch(rem, Head(round).teams, 1)
         IN  IF index = 0 THEN rem ELSE RemoveAt(rem, index)

RECURSIVE removeUsed(_, _)
removeUsed(rem, round) ==
    IF round = <<>> THEN rem
    ELSE LET index == findMatch(rem, Head(round).teams, 1)
         IN  removeUsed(IF index = 0 THEN rem ELSE RemoveAt(rem, index), Tail(round))

plainRoundKeepShort(rem, rs, round) ==
    [stop |-> Len(round) = 0,
     remaining |-> removeUsed(rem, round),
     rounds |-> IF Len(round) = 0 THEN rs ELSE Append(rs, round)]

\* The end of one iteration, round being the result of the for loop: `break`
\* when it is short, else it is pushed and its pairs are removed.
plainRound(rem, rs, round) ==
    [stop |-> Len(round) < 2,
     remaining |-> IF Len(round) < 2 THEN rem ELSE removeUsed(rem, round),
     rounds |-> IF Len(round) < 2 THEN rs ELSE Append(rs, round)]

\* One iteration of the while loop on (remaining, rounds).
plainStep(rem, rs) == plainRound(rem, rs, scanPlain(rem, 1, <<>>, {}))

RECURSIVE plainLoop(_, _)
plainNext(s) == IF s.stop THEN s.rounds ELSE plainLoop(s.remaining, s.rounds)

plainLoop(rem, rs) == IF Len(rem) = 0 THEN rs ELSE plainNext(plainStep(rem, rs))

groupRounds(pairs) ==
    plainLoop([i \in 1..Len(pairs) |-> Match(pairs[i])], <<>>)

(***************************************************************************)
(* part_001 scheduleRounds and precomputeSchedules.                        *)
(***************************************************************************)
\* The for loop of one round: accepted pairs are spliced out as they are
\* taken, and i advances only past a rejected pair.
RECURSIVE scanSeeded(_, _, _, _)
scanSeeded(rem, i, round, used) ==
    IF i > Len(rem) THEN [round |-> round, remaining |-> rem]
    ELSE
      LET a == rem[i][1]
          b == rem[i][2]
      IN  IF a \notin used /\ b \notin used
          THEN LET round1x == Append(round, <<a, b>>)
                   rem1 == RemoveAt(rem, i)
               IN  IF Len(round1x) = COURTS
                   THEN [round |-> round1x, remaining |-> rem1]
                   ELSE scanSeeded(rem1, i, round1x, used \cup {a, b})
          ELSE scanSeeded(rem, i + 1, round, used)

\* The end of one iteration, sc being the result of the for loop: the round
\* is pushed when it is full, else `break`.
seededRound(rs, sc) ==
    [stop |-> Len(sc.round) # 2,
     remaining |-> sc.remaining,
     rounds |-> IF Len(sc.round) = 2 THEN Append(rs, sc.round) ELSE rs]

\* One iteration of the while loop on (remaining, rounds).
seededStep(rem, rs) == seededRound(rs, scanSeeded(rem, 1, <<>>, {}))

RECURSIVE seededLoop(_, _)
seededNext(s) == IF s.stop THEN s.rounds ELSE seededLoop(s.remaining, s.rounds)

seededLoop(rem, rs) == IF Len(rem) = 0 THEN rs ELSE seededNext(seededStep(rem, rs))

scheduleRoundsGreedy(pairs) == seededLoop(pairs, <<>>)

\* firstRound
firstRound == <<(<<1, 2>>), (<<3, 4>>)>>

\* allPairs.filter(p => !firstRoundNorm.includes(JSON.stringify(normalizePair(p)))):
\* two normalised pairs have the same JSON text exactly when they are equal
notInFirstRound(p) ==
    \A k \in 1..Len(firstRound) : normalizePair(firstRound[k]) # normalizePair(p)

remainingPairsOfAll(n) == generateAllPairs(n)

remainingPairsOf(n) == SelectSeq(generateAllPairs(n), notInFirstRound)

\* The body of precomputeSchedules' loop for one teamCount.
scheduleFor(n) ==
    <<firstRound>> \o scheduleRoundsGreedy(seededShuffle(remainingPairsOf(n), n))

\* const schedules = precomputeSchedules(): computed once, when the module
\* loads (@@ makes the function a table, computed once)
schedules == [n \in MinTeams..MaxTeams |-> scheduleFor(n)] @@ <<>>

(***************************************************************************)
(* One run of the generator, one loop iteration per step.                  *)
(***************************************************************************)
NoValue == <<>>

GenIdle ==
    /\ gN = 0 /\ gPc = "idle" /\ gRun = 0
    /\ gRemaining = <<>> /\ gRounds = <<>> /\ gCount = <<>> /\ gPlayed = {}
    /\ gPrng = <<0, 0>> /\ gArr = <<>> /\ gM = 0
    /\ gSchedule = NoValue /\ gFirst = NoValue

\* Entry of the generator, up to its first loop.
GenStart ==
    /\ gPc = "start"
    /\ \/ /\ variant = "App.js"          \* scheduleRounds(teamCount)
          /\ gRounds' = <<round1>>
          /\ gRemaining' = initialRemaining(gN)
          /\ gCount' = initialMatchesCount(gN)
          /\ gPlayed' = initialPlayedPairs
          /\ gPc' = "build"
          /\ UNCHANGED <<gArr, gM, gPrng>>
       \/ /\ variant = "part_000"        \* groupRounds(generatePairs(teamCount))
          /\ gRounds' = <<>>
          /\ gRemaining' = LET pairs == generatePairs(gN)
                           IN  [i \in 1..Len(pairs) |-> Match(pairs[i])]
          /\ gPc' = "build"
          /\ UNCHANGED <<gCount, gPlayed, gArr, gM, gPrng>>
       \/ /\ variant = "part_001"        \* seededShuffle(remainingPairs, teamCount)
          /\ gN \in MinTeams..MaxTeams   \* for (teamCount = 4; teamCount <= 15; ...)
          /\ gArr' = remainingPairsOf(gN)
          /\ gM' = Len(remainingPairsOf(gN))
          /\ gPrng' = mulberry32(gN)
          /\ gPc' = "shuffle"
          /\ UNCHANGED <<gRounds, gRemaining, gCount, gPlayed>>
    /\ UNCHANGED <<variant, appVars, gN, gRun, gSchedule, gFirst>>

\* while (m) { ... } of seededShuffle
GenShuffle ==
    /\ gPc = "shuffle"
    /\ gM > 0
    /\ LET s == shuffleStep(gArr, gM, gPrng)
       IN  gArr' = s.arr /\ gM' = s.m /\ gPrng' = s.a
    /\ UNCHANGED <<variant, appVars, gN, gPc, gRun, gRemaining, gRounds, gCount,
                   gPlayed, gSchedule, gFirst>>

\* return arr; then scheduleRounds(shuffledPairs) up to its loop
GenShuffled ==
    /\ gPc = "shuffle"
    /\ gM = 0
    /\ gRemaining' = gArr
    /\ gRounds' = <<>>
    /\ gPc' = "build"
    /\ UNCHANGED <<variant, appVars, gN, gRun, gCount, gPlayed, gPrng, gArr, gM,
                   gSchedule, gFirst>>

\* One iteration of the round-building while loop.
GenBuild ==
    /\ gPc = "build"
    /\ Len(gRemaining) > 0
    /\ \/ /\ variant = "App.js"
          /\ LET s == balancedStep(gRemaining, gRounds, gCount, gPlayed)
             IN  /\ gRemaining' = s.remaining
                 /\ gRounds' = s.rounds
                 /\ gCount' = s.count
                 /\ gPlayed' = s.played
                 /\ gPc' = IF s.stop THEN "return" ELSE "build"
       \/ /\ variant = "part_000"
          /\ LET s == plainStep(gRemaining, gRounds)
             IN  /\ gRemaining' = s.remaining
                 /\ gRounds' = s.rounds
                 /\ gPc' = IF s.stop THEN "return" ELSE "build"
          /\ UNCHANGED <<gCount, gPlayed>>
       \/ /\ variant = "part_001"
          /\ LET s == seededStep(gRemaining, gRounds)
             IN  /\ gRemaining' = s.remaining
                 /\ gRounds' = s.rounds
                 /\ gPc' = IF s.stop THEN "return" ELSE "build"
          /\ UNCHANGED <<gCount, gPlayed>>
    /\ UNCHANGED <<variant, appVars, gN, gRun, gPrng, gArr, gM, gSchedule, gFirst>>

\* The loop condition fails: remaining is empty.
GenExhausted ==
    /\ gPc = "build"
    /\ Len(gRemaining) = 0
    /\ gPc' = "return"
    /\ UNCHANGED <<variant, appVars, gN, gRun, gRemaining, gRounds, gCount, gPlayed,
                   gPrng, gArr, gM, gSchedule, gFirst>>

\* return rounds (part_001: schedules[teamCount] = [firstRound, ...remainingRounds])
GenReturn ==
    /\ gPc = "return"
    /\ gSchedule' = IF variant = "part_001" THEN <<firstRound>> \o gRounds
                    ELSE gRounds
    /\ gPc' = "done"
    /\ UNCHANGED <<variant, appVars, gN, gRun, gRemaining, gRounds, gCount, gPlayed,
                   gPrng, gArr, gM, gFirst>>

\* The seeded generator is called a second time for the same team count.
GenAgain ==
    /\ gPc = "done"
    /\ gRun = 1
    /\ variant = "part_001"
    /\ gFirst' = gSchedule
    /\ gRun' = 2
    /\ gPc' = "start"
    /\ gSchedule' = NoValue
    /\ gRemaining' = <<>> /\ gRounds' = <<>>
    /\ UNCHANGED <<variant, appVars, gN, gCount, gPlayed, gPrng, gArr, gM>>

GenNext ==
    \/ GenStart \/ GenShuffle \/ GenShuffled \/ GenBuild \/ GenExhausted
    \/ GenReturn \/ GenAgain

(***************************************************************************)
(* Text conversions: String(n), parseInt, JSON.stringify, JSON.parse.      *)
(* A text is a sequence of tokens: single characters, and the multi-       *)
(* character atoms "teams", "complete", true and false.                    *)
(***************************************************************************)
Digits == <<"0", "1", "2", "3", "4", "5", "6", "7", "8", "9">>

isDigit(c) == \E d \in 1..10 : Digits[d] = c

digitValue(c) == (CHOOSE d \in 1..10 : Digits[d] = c) - 1

\* String(n), for an integer n
RECURSIVE numberToString(_)
numberToString(n) ==
    IF n < 0 THEN <<"-">> \o numberToString(0 - n)
    ELSE IF n < 10 THEN <<Digits[n + 1]>>
    ELSE numberToString(n \div 10) \o <<Digits[(n % 10) + 1]>>

\* The run of digits of t from position i: its value and the position after it.
RECURSIVE parseDigits(_, _, _, _)
parseDigits(t, i, acc, seen) ==
    IF i <= Len(t) /\ isDigit(t[i])
    THEN parseDigits(t, i + 1, 10 * acc + digitValue(t[i]), seen + 1)
    ELSE [val |-> acc, pos |-> i, seen |-> seen]

\* parseInt(text): leading blanks, an optional sign, then digits; NaN
\* when no digit follows.
RECURSIVE skipBlanks(_, _)
skipBlanks(t, i) == IF i <= Len(t) /\ t[i] = " " THEN skipBlanks(t, i + 1) ELSE i

parseInt(t) ==
    LET i  == skipBlanks(t, 1)
        sg == i <= Len(t) /\ t[i] \in {"-", "+"}
        d  == parseDigits(t, IF sg THEN i + 1 ELSE i, 0, 0)
    IN  IF d.seen = 0 THEN [nan |-> TRUE, val |-> 0]
        ELSE [nan |-> FALSE, val |-> IF sg /\ t[i] = "-" THEN 0 - d.val ELSE d.val]

\* x || d for a number x: NaN and 0 are falsy
orDefault(x, d) == IF x.nan \/ x.val = 0 THEN d ELSE x.val

\* JSON.stringify of a match object {teams: [a, b], complete: c}
stringifyMatch(m) ==
    <<"{", "teams", ":", "[">> \o numberToString(m.teams[1]) \o <<",">>
    \o numberToString(m.teams[2]) \o <<"]", ",", "complete", ":">>
    \o <<IF m.complete THEN "true" ELSE "false">> \o <<"}">>

\* The elements of a list, with commas between them.
RECURSIVE joinTexts(_)
joinTexts(ts) ==
    IF ts = <<>> THEN <<>>
    ELSE IF Len(ts) = 1 THEN ts[1]
    ELSE ts[1] \o <<",">> \o joinTexts(Tail(ts))

stringifyRound(r) ==
    <<"[">> \o joinTexts([j \in 1..Len(r) |-> stringifyMatch(r[j])]) \o <<"]">>

\* JSON.stringify(rounds)
stringifyRounds(rs) ==
    <<"[">> \o joinTexts([i \in 1..Len(rs) |-> stringifyRound(rs[i])]) \o <<"]">>

\* JSON.parse of a match object starting at position i
parseMatch(t, i) ==
    LET a == parseDigits(t, i + 4, 0, 0)
        b == parseDigits(t, a.pos + 1, 0, 0)
    IN  [val |-> [teams |-> <<a.val, b.val>>, complete |-> t[b.pos + 4] = "true"],
         pos |-> b.pos + 6]

RECURSIVE parseMatches(_, _, _)
parseMatches(t, i, acc) ==
    IF t[i] = "]" THEN [val |-> acc, pos |-> i + 1]
    ELSE LET m == parseMatch(t, IF t[i] = "," THEN i + 1 ELSE i)
         IN  parseMatches(t, m.pos, Append(acc, m.val))

RECURSIVE parseRoundList(_, _, _)
parseRoundList(t, i, acc) ==
    IF t[i] = "]" THEN [val |-> acc, pos |-> i + 1]
    ELSE LET r == parseMatches(t, (IF t[i] = "," THEN i + 1 ELSE i) + 1, <<>>)
         IN  parseRoundList(t, r.pos, Append(acc, r.val))

\* JSON.parse(stored) of a text written by stringifyRounds
parseRounds(t) == parseRoundList(t, 2, <<>>).val

\* JSON.stringify of an array of court indexes
stringifyCourts(cs) ==
    <<"[">> \o joinTexts([j \in 1..Len(cs) |-> numberToString(cs[j])]) \o <<"]">>

Min(S) == CHOOSE x \in S : \A y \in S : x <= y

\* The own keys of an object with integer keys, ascending (JS property order).
RECURSIVE keysAscending(_)
keysAscending(S) ==
    IF S = {} THEN <<>> ELSE <<Min(S)>> \o keysAscending(S \ {Min(S)})

\* JSON.stringify(completedMatches): {"0":[0,1],"2":[]}
stringifyCompleted(cm) ==
    LET ks == keysAscending(DOMAIN cm)
    IN  <<"{">>
        \o joinTexts([k \in 1..Len(ks) |->
               <<"\"">> \o numberToString(ks[k]) \o <<"\"", ":">>
               \o stringifyCourts(cm[ks[k]])])
        \o <<"}">>

RECURSIVE parseCourts(_, _, _)
parseCourts(t, i, acc) ==
    IF t[i] = "]" THEN [val |-> acc, pos |-> i + 1]
    ELSE LET n == parseDigits(t, IF t[i] = "," THEN i + 1 ELSE i, 0, 0)
         IN  parseCourts(t, n.pos, Append(acc, n.val))

\* obj with obj[k] = v
withKey(obj, k, v) ==
    [x \in (DOMAIN obj) \cup {k} |-> IF x = k THEN v ELSE obj[x]]

RECURSIVE parseEntries(_, _, _)
parseEntries(t, i, acc) ==
    IF t[i] = "}" THEN acc
    ELSE LET k == parseDigits(t, (IF t[i] = "," THEN i + 1 ELSE i) + 1, 0, 0)
             cs == parseCourts(t, k.pos + 3, <<>>)
         IN  parseEntries(t, cs.pos, withKey(acc, k.val, cs.val))

\* JSON.parse(saved) of a text written by stringifyCompleted
parseCompleted(t) == parseEntries(t, 2, <<>>)

(***************************************************************************)
(* localStorage.                                                           *)
(***************************************************************************)
\* localStorage.setItem(key, text)
setItem(ls, key, text) == withKey(ls, key, text)

\* parseInt(localStorage.getItem(key)): a missing item reads as null, NaN
parseIntItem(ls, key) ==
    IF key \in DOMAIN ls THEN parseInt(ls[key]) ELSE [nan |-> TRUE, val |-> 0]

\* const stored = getItem(key); stored ? ... : ...
hasText(ls, key) == key \in DOMAIN ls /\ ls[key] # <<>>

(***************************************************************************)
(* The component of App.js and part_000.  A component state is the record  *)
(* [teamCount, rounds, completedMatches, playCounts, ls, generated]; the   *)
(* last field is the schedule an effect generated during the commit.       *)
(***************************************************************************)
\* An empty JS object.
EmptyObject == <<>>

\* The schedule generation each file calls: scheduleRounds(teamCount) in
\* App.js, groupRounds(generatePairs(teamCount)) in part_000.  Both are pure,
\* so their values for the supported team counts are tabulated once.
generatedBalanced == [n \in MinTeams..MaxTeams |-> scheduleRounds(n)] @@ <<>>

generatedPlain == [n \in MinTeams..MaxTeams |-> groupRounds(generatePairs(n))] @@ <<>>

generate(v, n) ==
    IF v = "App.js"
    THEN (IF n \in MinTeams..MaxTeams THEN generatedBalanced[n]
          ELSE scheduleRounds(n))
    ELSE (IF n \in MinTeams..MaxTeams THEN generatedPlain[n]
          ELSE groupRounds(generatePairs(n)))

\* useEffect(() => {...}, [teamCount]) with the rendered teamCount and rounds
teamCountEffect(v, st) ==
    LET ls1 == setItem(st.ls, "teamCount", numberToString(st.teamCount))
    IN  IF Len(st.rounds) = 0
        THEN [st EXCEPT !.ls = ls1, !.generated = generate(v, st.teamCount)]
        ELSE [st EXCEPT !.ls = ls1]

\* useEffect(() => {...}, [rounds])
roundsEffect(st) ==
    [st EXCEPT !.ls = setItem(@, "rounds", stringifyRounds(st.rounds))]

\* A render and the effects after it: those whose dependency changed run, in
\* order, on the rendered values; a setRounds made by an effect renders
\* again, and the rounds effect runs on the new value.
commitGenerated(st) ==
    IF st.generated # NoValue
    THEN roundsEffect([st EXCEPT !.rounds = st.generated])
    ELSE st

commitRounds(st, roundsChanged) ==
    commitGenerated(IF roundsChanged THEN roundsEffect(st) ELSE st)

commit(v, st, teamCountChanged, roundsChanged) ==
    commitRounds(IF teamCountChanged THEN teamCountEffect(v, st) ELSE st,
                 roundsChanged)

\* useState initialisers, then the first render's effects (all of them run).
mount(v, ls) ==
    commit(v,
           [teamCount |-> orDefault(parseIntItem(ls, "teamCount"), 6),
            rounds |-> IF hasText(ls, "rounds") THEN parseRounds(ls["rounds"])
                       ELSE <<>>,
            completedMatches |-> EmptyObject,
            playCounts |-> EmptyObject,
            ls |-> ls,
            generated |-> NoValue],
           TRUE, TRUE)

toggledRoundsSetOnly(rs, roundIndex, courtIndex) ==
    [r \in 1..Len(rs) |->
        [c \in 1..Len(rs[r]) |->
            IF r - 1 = roundIndex /\ c - 1 = courtIndex
            THEN [rs[r][c] EXCEPT !.complete = TRUE]
            ELSE rs[r][c]]]

\* rounds.map(... { ...match, complete: !match.complete } ...), 0-based indexes
toggledRounds(rs, roundIndex, courtIndex) ==
    [r \in 1..Len(rs) |->
        [c \in 1..Len(rs[r]) |->
            IF r - 1 = roundIndex /\ c - 1 = courtIndex
            THEN [rs[r][c] EXCEPT !.complete = ~rs[r][c].complete]
            ELSE rs[r][c]]]

\* toggleComplete(roundIndex, courtIndex)
toggleComplete(v, st, roundIndex, courtIndex) ==
    commit(v, [st EXCEPT !.rounds = toggledRounds(st.rounds, roundIndex, courtIndex)],
           FALSE, TRUE)

regenerateScheduleRotated(v, st) ==
    commit(v, [st EXCEPT !.rounds = Tail(generate(v, st.teamCount))
                                     \o <<Head(generate(v, st.teamCount))>>],
           FALSE, TRUE)

\* regenerateSchedule()
regenerateSchedule(v, st) ==
    commit(v, [st EXCEPT !.rounds = generate(v, st.teamCount)], FALSE, TRUE)

clearedRoundsFirstOnly(rs) ==
    [r \in 1..Len(rs) |->
        [c \in 1..Len(rs[r]) |->
            IF r = 1 THEN [rs[r][c] EXCEPT !.complete = FALSE] ELSE rs[r][c]]]

\* rounds.map(round => round.map(match => ({ ...match, complete: false })))
clearedRounds(rs) ==
    [r \in 1..Len(rs) |->
        [c \in 1..Len(rs[r]) |-> [rs[r][c] EXCEPT !.complete = FALSE]]]

\* resetProgress()
resetProgress(v, st) ==
    commit(v, [st EXCEPT !.rounds = clearedRounds(st.rounds)], FALSE, TRUE)

setTeamCountKeepRounds(v, st, val) ==
    commit(v, [st EXCEPT !.teamCount = val], val # st.teamCount, FALSE)

\* setTeamCount(val); setRounds([])
setTeamCountAndClear(v, st, val) ==
    commit(v, [st EXCEPT !.teamCount = val, !.rounds = <<>>],
           val # st.teamCount, TRUE)

\* App.js: onChange of the <select>
selectOnChange(v, st, text) ==
    setTeamCountAndClear(v, st, parseInt(text).val)

\* part_000: onChange of the <input>
inputOnChange(v, st, text) ==
    LET val == parseInt(text)
    IN  IF ~val.nan /\ val.val >= 4 /\ val.val <= 15
        THEN setTeamCountAndClear(v, st, val.val)
        ELSE st

\* matchesCount as computed during render
RECURSIVE countCompleted(_, _)
countCompleted(ms, t) ==
    IF ms = <<>> THEN 0
    ELSE (IF Head(ms).complete /\ t \in {Head(ms).teams[1], Head(ms).teams[2]}
          THEN 1 ELSE 0) + countCompleted(Tail(ms), t)

matchesCount(n, rs) == [t \in 1..n |-> countCompleted(Flatten(rs), t)]

(***************************************************************************)
(* The component of part_001.                                              *)
(***************************************************************************)
\* counts: for each team the number of matches of the schedule it is in
RECURSIVE countScheduled(_, _)
countScheduled(ps, t) ==
    IF ps = <<>> THEN 0
    ELSE (IF t \in {Head(ps)[1], Head(ps)[2]} THEN 1 ELSE 0)
         + countScheduled(Tail(ps), t)

scheduledCounts(n, schedule) == [t \in 1..n |-> countScheduled(Flatten(schedule), t)]

\* schedules[teamCount] || []
scheduleOrEmpty(n) == IF n \in MinTeams..MaxTeams THEN schedules[n] ELSE <<>>

\* The state the effect sets for the schedule it looked up.
seededApply(st, schedule) ==
    [st EXCEPT !.ls = setItem(@, "teamCount", numberToString(st.teamCount)),
               !.rounds = schedule,
               !.completedMatches = EmptyObject,
               !.playCounts = scheduledCounts(st.teamCount, schedule),
               !.generated = schedule]

\* useEffect(() => {...}, [teamCount])
seededTeamCountEffect(st) == seededApply(st, scheduleOrEmpty(st.teamCount))

\* useEffect(() => {...}, [completedMatches])
completedEffect(ls, cm) == setItem(ls, "completedMatches", stringifyCompleted(cm))

\* A render and the effects after it.  The completedMatches effect writes the
\* rendered value; when the teamCount effect ran, its setCompletedMatches({})
\* renders again and the completedMatches effect writes once more.
seededCommitAgain(st, ls, teamCountChanged) ==
    IF teamCountChanged
    THEN [st EXCEPT !.ls = completedEffect(ls, st.completedMatches)]
    ELSE [st EXCEPT !.ls = ls]

seededCommitCompleted(st, rendered, teamCountChanged, completedChanged) ==
    seededCommitAgain(st,
                      IF completedChanged THEN completedEffect(st.ls, rendered)
                      ELSE st.ls,
                      teamCountChanged)

seededCommit(st, teamCountChanged, completedChanged) ==
    seededCommitCompleted(
        IF teamCountChanged THEN seededTeamCountEffect(st) ELSE st,
        st.completedMatches, teamCountChanged, completedChanged)

\* useState initialisers, then the first render's effects.
seededMount(ls) ==
    seededCommit([teamCount |-> orDefault(parseIntItem(ls, "teamCount"), 7),
                  rounds |-> <<>>,
                  completedMatches |->
                      IF hasText(ls, "completedMatches")
                      THEN parseCompleted(ls["completedMatches"])
                      ELSE EmptyObject,
                  playCounts |-> EmptyObject,
                  ls |-> ls,
                  generated |-> NoValue],
                 TRUE, TRUE)

\* prev[roundIndex] || []
courtsOf(cm, roundIndex) == IF roundIndex \in DOMAIN cm THEN cm[roundIndex] ELSE <<>>

isCourt(cs, courtIndex) == \E k \in 1..Len(cs) : cs[k] = courtIndex

toggledCourtsAlone(cs, courtIndex) ==
    IF isCourt(cs, courtIndex) THEN <<>> ELSE <<courtIndex>>

\* Array.from(roundMatches) after the Set's delete or add
toggledCourts(cs, courtIndex) ==
    IF isCourt(cs, courtIndex)
    THEN LET other(x) == x # courtIndex IN SelectSeq(cs, other)
    ELSE Append(cs, courtIndex)

\* toggleMatchComplete(roundIndex, courtIndex)
toggleMatchComplete(st, roundIndex, courtIndex) ==
    seededCommit(
        [st EXCEPT !.completedMatches =
            withKey(@, roundIndex, toggledCourts(courtsOf(@, roundIndex), courtIndex))],
        FALSE, TRUE)

\* Reset Progress: setCompletedMatches({}); setTeamCount(count => count)
seededReset(st) ==
    seededCommit([st EXCEPT !.completedMatches = EmptyObject], FALSE, TRUE)

\* onChange of the <input>: Math.min(15, Math.max(4, parseInt(value) || 4))
clampTeams(text) ==
    LET x == orDefault(parseInt(text), 4)
        lo == IF x > 4 THEN x ELSE 4
    IN  IF lo < 15 THEN lo ELSE 15

\* setTeamCount(n): a state equal to the current one renders nothing
seededInputOnChange(st, text) ==
    LET n == clampTeams(text)
    IN  IF n = st.teamCount THEN st
        ELSE seededCommit([st EXCEPT !.teamCount = n], TRUE, FALSE)

\* completedMatches[roundIndex]?.includes(courtIndex) ?? false
isCompleted(cm, roundIndex, courtIndex) ==
    roundIndex \in DOMAIN cm /\ isCourt(cm[roundIndex], courtIndex)

(***************************************************************************)
(* The component as a state machine: one action per user event, each with  *)
(* the render and the effects it causes.                                   *)
(***************************************************************************)
\* The team counts the user picks or types are MinTeams..MaxAppTeams.
MaxAppTeams == 6
\* Toggles are addressed to the rounds with index below MaxToggleRound.
MaxToggleRound == 2

AppTeams == MinTeams..MaxAppTeams

\* Texts typed into the <input>: a team count, one with a leading zero, the
\* empty text, and a number on each side of the supported range.
TypedTexts ==
    {numberToString(n) : n \in AppTeams}
    \cup {<<"0">> \o numberToString(n) : n \in AppTeams}
    \cup {<<>>, numberToString(MinTeams - 1), numberToString(MaxTeams + 1)}

\* What is remembered of the last event: the operation, the (roundIndex,
\* courtIndex) it addressed when it was a toggle, and how many matches were
\* marked complete when it arrived.
NoMatch == <<>>

Event(op, at, before) == [op |-> op, at |-> at, before |-> before]

AppIdle ==
    /\ teamCount = 0 /\ rounds = <<>> /\ completedMatches = EmptyObject
    /\ playCounts = EmptyObject /\ localStorage = EmptyObject
    /\ lastEvent = Event("none", NoMatch, 0)
    /\ firstGenerated = EmptyObject

\* The component state held by the variables.
current ==
    [teamCount |-> teamCount, rounds |-> rounds,
     completedMatches |-> completedMatches, playCounts |-> playCounts,
     ls |-> localStorage, generated |-> NoValue]

\* The two team ids of a match of the running variant.
teamsOf(m) == IF variant = "part_001" THEN m ELSE m.teams

\* Whether the match on court c of round r (both counted from 1) is rendered
\* as complete in component state st of variant v.
completeIn(v, st, r, c) ==
    IF v = "part_001" THEN isCompleted(st.completedMatches, r - 1, c - 1)
    ELSE st.rounds[r][c].complete

\* The completion flag of every match of a component state, in schedule order.
flagsOf(v, st) ==
    [r \in 1..Len(st.rounds) |->
        [c \in 1..Len(st.rounds[r]) |-> completeIn(v, st, r, c)]]

completeAt(r, c) == completeIn(variant, current, r, c)

\* The completion flag of every match, and the pairing, in schedule order.
Flags == flagsOf(variant, current)

Schedule == [r \in 1..Len(rounds) |-> [c \in 1..Len(rounds[r]) |-> teamsOf(rounds[r][c])]]

Positions == {<<r, c>> \in (1..Len(rounds)) \X (1..COURTS) : c <= Len(rounds[r])}

completeCount == Cardinality({p \in Positions : completeAt(p[1], p[2])})

\* The schedule first generated for each team count (App.js and part_000,
\* the files that can regenerate).
recordGenerated(first, st) ==
    IF variant # "part_001" /\ st.generated # NoValue
       /\ first[st.teamCount] = NoValue
    THEN [first EXCEPT ![st.teamCount] = st.generated]
    ELSE first

\* The variables take the component state after event op.
Becomes(after, op, at) == \E st \in {after} :
    /\ teamCount' = st.teamCount
    /\ rounds' = st.rounds
    /\ completedMatches' = st.completedMatches
    /\ playCounts' = st.playCounts
    /\ localStorage' = st.ls
    /\ lastEvent' = Event(op, at, completeCount)
    /\ firstGenerated' = recordGenerated(firstGenerated, st)
    /\ UNCHANGED <<variant, genVars>>

\* The onClick handler of a match's Complete / Undo button in variant v.
onToggle(v, st, roundIndex, courtIndex) ==
    IF v = "part_001" THEN toggleMatchComplete(st, roundIndex, courtIndex)
    ELSE toggleComplete(v, st, roundIndex, courtIndex)

\* First launch: nothing stored.
Init ==
    /\ variant \in Variants
    /\ \E st \in {IF variant = "part_001" THEN seededMount(EmptyObject)
                  ELSE mount(variant, EmptyObject)} :
           /\ teamCount = st.teamCount
           /\ rounds = st.rounds
           /\ completedMatches = st.completedMatches
           /\ playCounts = st.playCounts
           /\ localStorage = st.ls
           /\ firstGenerated =
                recordGenerated([n \in AppTeams |-> NoValue], st)
    /\ lastEvent = Event("launch", NoMatch, 0)
    /\ GenIdle

\* A click on the Complete / Undo button of an existing match.
Toggle(roundIndex, courtIndex) ==
    /\ roundIndex < Len(rounds)
    /\ courtIndex < Len(rounds[roundIndex + 1])
    /\ Becomes(onToggle(variant, current, roundIndex, courtIndex),
               "toggle", <<roundIndex, courtIndex>>)

\* Two toggleComplete calls made from the same render: each computes
\* newRounds from the rounds of that render and calls setRounds(newRounds);
\* of two queued values the later one is the next state.
toggleCompleteTwice(v, st, first, second) ==
    commit(v,
           [st EXCEPT !.rounds =
               <<toggledRounds(st.rounds, first[1], first[2]),
                 toggledRounds(st.rounds, second[1], second[2])>>[2]],
           FALSE, TRUE)

\* The function toggleMatchComplete passes to setCompletedMatches.
toggledEntry(prev, roundIndex, courtIndex) ==
    withKey(prev, roundIndex, toggledCourts(courtsOf(prev, roundIndex), courtIndex))

\* Two toggleMatchComplete calls made from the same render: the two queued
\* functions are applied one after the other, each to the result before it.
toggleMatchCompleteTwice(st, first, second) ==
    seededCommit(
        [st EXCEPT !.completedMatches =
            toggledEntry(toggledEntry(@, first[1], first[2]), second[1], second[2])],
        FALSE, TRUE)

\* Clicks on the buttons of two different matches, both handled before the
\* component renders again.
ToggleTwo(first, second) ==
    /\ first # second
    /\ \A at \in {first, second} :
          at[1] < Len(rounds) /\ at[2] < Len(rounds[at[1] + 1])
    /\ Becomes(IF variant = "part_001"
               THEN toggleMatchCompleteTwice(current, first, second)
               ELSE toggleCompleteTwice(variant, current, first, second),
               "toggles", <<first, second>>)

\* A click on Regenerate Schedule (App.js and part_000).
Regenerate ==
    /\ variant # "part_001"
    /\ Becomes(regenerateSchedule(variant, current), "regenerate", NoMatch)

\* A click on Reset Progress.
Reset ==
    Becomes(IF variant = "part_001" THEN seededReset(current)
            ELSE resetProgress(variant, current),
            "reset", NoMatch)

\* App.js: another option of the <select> is chosen (a change event fires
\* only when the selection changes).
SelectTeams(n) ==
    /\ variant = "App.js"
    /\ n # teamCount
    /\ Becomes(selectOnChange(variant, current, numberToString(n)),
               "teams", NoMatch)

\* part_000 and part_001: the text of the <input>, which shows the team
\* count, is changed.  (part_001 clamps a larger number to MaxTeams; the
\* texts typed are those that keep the team count within AppTeams.)
TypeTeams(text) ==
    /\ variant # "App.js"
    /\ text # numberToString(teamCount)
    /\ variant = "part_001" => clampTeams(text) \in AppTeams
    /\ Becomes(IF variant = "part_001" THEN seededInputOnChange(current, text)
               ELSE inputOnChange(variant, current, text),
               "teams", NoMatch)

\* The page is closed and opened again: the state is rebuilt from localStorage.
Restart ==
    Becomes(IF variant = "part_001" THEN seededMount(localStorage)
            ELSE mount(variant, localStorage),
            "restart", NoMatch)

Next ==
    \/ \E r \in 0..(MaxToggleRound - 1), c \in 0..(COURTS - 1) : Toggle(r, c)
    \/ Regenerate
    \/ Reset
    \/ \E n \in AppTeams : SelectTeams(n)
    \/ \E text \in TypedTexts : TypeTeams(text)
    \/ Restart

Spec == Init /\ [][Next]_vars

\* The component when two toggles may also be handled within one render.
ToggleTargets == (0..(MaxToggleRound - 1)) \X (0..(COURTS - 1))

NextBatched ==
    \/ Next
    \/ \E first, second \in ToggleTargets : ToggleTwo(first, second)

SpecBatched == Init /\ [][NextBatched]_vars

\* The generator run for every variant and every supported team count.
InitGen ==
    /\ variant \in Variants
    /\ gN \in MinTeams..MaxTeams
    /\ gPc = "start" /\ gRun = 1
    /\ gRemaining = <<>> /\ gRounds = <<>> /\ gCount = <<>> /\ gPlayed = {}
    /\ gPrng = <<0, 0>> /\ gArr = <<>> /\ gM = 0
    /\ gSchedule = NoValue /\ gFirst = NoValue
    /\ AppIdle

SpecGen == InitGen /\ [][GenNext]_vars

\* The generator is synchronous code on the one JavaScript thread: once
\* called it runs, step after step, until it returns.  Weak fairness of
\* every step; for the two loop bodies it is written out (infinitely often
\* disabled or infinitely often taken), the loop condition being the
\* enabling condition.
GenStepOther == GenStart \/ GenShuffled \/ GenExhausted \/ GenReturn \/ GenAgain

SpecGenFair ==
    /\ InitGen /\ [][GenNext]_vars
    /\ WF_vars(GenStepOther)
    /\ ([]<>~(gPc = "shuffle" /\ gM > 0) \/ []<><<GenShuffle>>_vars)
    /\ ([]<>~(gPc = "build" /\ Len(gRemaining) > 0) \/ []<><<GenBuild>>_vars)

\* The generator called with any team count, the unsupported ones included.
AnyTeams == 0..(MaxTeams + 1)

\* part_001 has no schedule for a team count outside 4..15: the lookup
\* schedules[teamCount] || [] gives the empty list.
GenLookupMissing ==
    /\ gPc = "start"
    /\ variant = "part_001"
    /\ gN \notin MinTeams..MaxTeams
    /\ gSchedule' = scheduleOrEmpty(gN)
    /\ gPc' = "done"
    /\ UNCHANGED <<variant, appVars, gN, gRun, gRemaining, gRounds, gCount, gPlayed,
                   gPrng, gArr, gM, gFirst>>

InitGenAny ==
    /\ variant \in Variants
    /\ gN \in AnyTeams
    /\ gPc = "start" /\ gRun = 1
    /\ gRemaining = <<>> /\ gRounds = <<>> /\ gCount = <<>> /\ gPlayed = {}
    /\ gPrng = <<0, 0>> /\ gArr = <<>> /\ gM = 0
    /\ gSchedule = NoValue /\ gFirst = NoValue
    /\ AppIdle

GenNextAny == GenNext \/ GenLookupMissing

SpecGenAny == InitGenAny /\ [][GenNextAny]_vars

(***************************************************************************)
(* Properties of the generated schedule.                                   *)
(***************************************************************************)
\* The rounds the run has produced so far, as they will be returned.
genOutput ==
    IF gPc = "done" THEN gSchedule
    ELSE IF variant = "part_001" THEN <<firstRound>> \o gRounds
    ELSE gRounds

GenBuilding == gPc \in {"build", "return", "done"}

\* The unordered pairs of a schedule, in order.
pairsOf(schedule) ==
    LET ms == Flatten(schedule)
    IN  [k \in 1..Len(ms) |-> normalizePair(teamsOf(ms[k]))]

\* C1: for every team count 4..15 and every variant, no unordered team pair
\* is in two matches of the schedule (the fixed opening round included), so
\* the schedule holds at most N*(N-1)/2 matches.  It holds of the rounds
\* built after every loop iteration, and so of the schedule returned.
C1_PairsAtMostOnce ==
    GenBuilding =>
        LET ps == pairsOf(genOutput)
        IN  /\ \A i, j \in 1..Len(ps) : i < j => ps[i] # ps[j]
            /\ 2 * Len(ps) <= gN * (gN - 1)

C1_Witness ==
    /\ gPc = "done" /\ gN = MaxTeams /\ variant = "part_000"
    /\ Len(gSchedule) > 50

\* C2: in every round of the schedule the matches share no team.
C2_RoundsDisjoint ==
    GenBuilding =>
        \A r \in 1..Len(genOutput) :
            \A i, j \in 1..Len(genOutput[r]) :
                i < j =>
                    LET a == teamsOf(genOutput[r][i])
                        b == teamsOf(genOutput[r][j])
                    IN  {a[1], a[2]} \cap {b[1], b[2]} = {}

C2_Witness ==
    /\ gPc = "done" /\ gN = MaxTeams /\ variant = "part_001"
    /\ Len(gSchedule) > 50

\* C3: every round of the schedule has exactly 2 matches; a round that could
\* only be filled with 1 match is dropped.
C3_NoShortRounds ==
    GenBuilding => \A r \in 1..Len(genOutput) : Len(genOutput[r]) = COURTS

\* The loop stopped with pairs left over: the last scan accepted the first of
\* them and found no second, and that round is not in the schedule.
C3_Witness ==
    /\ gPc = "done" /\ Len(gRemaining) > 0
    /\ 2 * (2 * Len(gSchedule) + Len(gRemaining)) = gN * (gN - 1)

\* C6: in App.js and part_001 the first round of the schedule is
\* [(1,2),(3,4)], in that court order, for every team count.
C6_FixedOpening ==
    (variant \in {"App.js", "part_001"} /\ gPc = "done") =>
        /\ Len(gSchedule) >= 1
        /\ [c \in 1..Len(gSchedule[1]) |-> teamsOf(gSchedule[1][c])]
               = <<(<<1, 2>>), (<<3, 4>>)>>

C6_Witness ==
    /\ gPc = "done" /\ variant = "App.js" /\ gN = MaxTeams /\ Len(gSchedule) > 1

\* C7: a second call of the seeded generator for the same team count returns
\* the schedule the first call returned.
C7_SeededDeterministic ==
    (variant = "part_001" /\ gRun = 2 /\ gPc = "done") => gSchedule = gFirst

C7_Witness ==
    /\ variant = "part_001" /\ gRun = 2 /\ gPc = "done" /\ gN = MaxTeams
    /\ Len(gFirst) > 1

(***************************************************************************)
(* Properties of the application.                                          *)
(***************************************************************************)
\* The counter rendered for each team: playCounts in part_001, matchesCount
\* in App.js and part_000.
shownCounters ==
    IF variant = "part_001" THEN playCounts ELSE matchesCount(teamCount, rounds)

\* The number of matches rendered as complete in which team t plays.
completedWith(t) ==
    Cardinality({p \in Positions :
        /\ completeAt(p[1], p[2])
        /\ t \in {Schedule[p[1]][p[2]][1], Schedule[p[1]][p[2]][2]}})

\* C4: in every reachable state the counter shown for each team t in 1..N is
\* the number of matches marked complete in which t plays.
C4_CountersAreCompleted ==
    \A t \in 1..teamCount :
        t \in DOMAIN shownCounters /\ shownCounters[t] = completedWith(t)

\* C5: a restart leaves the schedule and every match's completion flag as
\* they were just before it.
C5_RestartRestores ==
    [][lastEvent'.op = "restart" => (Schedule' = Schedule /\ Flags' = Flags)]_vars

\* The flags with the one of the match at (roundIndex, courtIndex) negated.
flippedAt(flags, at) ==
    [r \in DOMAIN flags |->
        [c \in DOMAIN flags[r] |->
            IF <<r - 1, c - 1>> = at THEN ~flags[r][c] ELSE flags[r][c]]]

\* C8: a toggle changes the flag of the match it addresses and no other flag,
\* and the same toggle once more gives every match the flag it had before
\* the first.
C8_ToggleTwiceRestores ==
    [][lastEvent'.op = "toggle" =>
        /\ Flags' = flippedAt(Flags, lastEvent'.at)
        /\ Flags' # Flags
        /\ flagsOf(variant,
                   onToggle(variant, current', lastEvent'.at[1], lastEvent'.at[2]))
               = Flags]_vars

\* A toggle of the one match that was marked complete, which an earlier
\* toggle had marked: no match is complete again.
C8_Witness ==
    /\ lastEvent.op = "toggle" /\ lastEvent.at # NoMatch
    /\ lastEvent.before = 1 /\ completeCount = 0

\* C9: Reset Progress leaves every match incomplete and the schedule and the
\* team count as they were.
C9_ResetKeepsSchedule ==
    [][lastEvent'.op = "reset" =>
        /\ completeCount' = 0
        /\ Schedule' = Schedule
        /\ teamCount' = teamCount]_vars

\* A reset that arrived with matches of both rounds marked complete.
C9_Witness ==
    /\ lastEvent.op = "reset" /\ lastEvent.before > 1
    /\ Len(rounds) > 1 /\ completeCount = 0

\* C10: Regenerate Schedule (App.js and part_000) yields the schedule first
\* generated for the current team count, every match incomplete, and leaves
\* the team count as it was.
C10_RegenerateSameSchedule ==
    [][lastEvent'.op = "regenerate" =>
        /\ firstGenerated[teamCount] # NoValue
        /\ rounds' = firstGenerated[teamCount]
        /\ completeCount' = 0
        /\ teamCount' = teamCount]_vars

\* A regeneration that arrived with a match marked complete.
C10_Witness ==
    /\ lastEvent.op = "regenerate" /\ lastEvent.before > 0
    /\ Len(rounds) > 1 /\ completeCount = 0

\* C11: when an event changes the team count to another supported value,
\* then once its state updates and effects have run the schedule is the one
\* generated for the new team count and no match of it is marked complete.
\* (generatedFor: what each file's generator returns for each team count.)
generatedFor ==
    [v \in Variants |->
        [n \in MinTeams..MaxTeams |->
            IF v = "part_001" THEN scheduleFor(n)
            ELSE IF v = "App.js" THEN scheduleRounds(n)
            ELSE groupRounds(generatePairs(n))]] @@ <<>>

C11_TeamChangeGenerates ==
    [][(lastEvent'.op = "teams" /\ teamCount' # teamCount) =>
        /\ teamCount' \in MinTeams..MaxTeams
        /\ rounds' = generatedFor[variant][teamCount']
        /\ completeCount' = 0]_vars

\* A team-count event that arrived with matches marked complete and left a
\* schedule with none.
C11_Witness ==
    /\ lastEvent.op = "teams" /\ lastEvent.before > 0
    /\ Len(rounds) > 1 /\ completeCount = 0

\* C12: for 4 teams the schedule of App.js scheduleRounds and of part_001
\* precomputeSchedules has exactly 3 rounds of 2 matches, and their matches
\* are the 6 pairs of the 4 teams.
C12_FourTeamsAllPairs ==
    (gPc = "done" /\ gN = 4 /\ variant \in {"App.js", "part_001"}) =>
        /\ Len(gSchedule) = 3
        /\ \A r \in 1..Len(gSchedule) : Len(gSchedule[r]) = 2
        /\ {pairsOf(gSchedule)[k] : k \in 1..Len(pairsOf(gSchedule))}
               = {<<i, j>> \in (1..4) \X (1..4) : i < j}

C12_Witness ==
    /\ gPc = "done" /\ gN = 4 /\ variant = "part_001" /\ gRun = 1
    /\ Len(gSchedule) > 1

\* C13: a call of the generator with a team count outside 4..15 returns no
\* schedule (it ends in an error instead).
C13_OutOfRangeRejected ==
    gN \notin MinTeams..MaxTeams => gPc # "done"

\* C14: every iteration of the round-building loop either appends a full
\* round and leaves strictly fewer remaining pairs, or stops the build; and
\* every call of the generator returns.
C14_GenerationTerminates ==
    /\ [][(gPc = "build" /\ Len(gRemaining) > 0) =>
            \/ gPc' = "return"
            \/ /\ gPc' = "build"
               /\ Len(gRounds') = Len(gRounds) + 1
               /\ Len(gRounds'[Len(gRounds')]) = COURTS
               /\ Len(gRemaining') < Len(gRemaining)]_vars
    /\ <>[](gPc = "done")

\* A run whose loop ended because no pair remained, after many rounds.
C14_Witness ==
    /\ gPc = "done" /\ variant = "App.js" /\ Len(gRemaining) = 0
    /\ Len(gSchedule) > 30

\* C15: for a team count N >= 2 the pair generator (generatePairs of App.js
\* and part_000, generateAllPairs of part_001) returns N(N-1)/2 pairs (i, j)
\* with 1 <= i < j <= N, in strictly increasing lexicographic order, hence
\* every such pair exactly once.
lexBefore(p, q) == p[1] < q[1] \/ (p[1] = q[1] /\ p[2] < q[2])

C15_PairsLexicographic ==
    (gPc # "start" /\ gN >= 2) =>
        \A g \in {generatePairs(gN), generateAllPairs(gN)} :
            /\ Len(g) = (gN * (gN - 1)) \div 2
            /\ \A k \in 1..Len(g) :
                   /\ g[k] \in (1..gN) \X (1..gN)
                   /\ g[k][1] < g[k][2]
            /\ \A k \in 1..(Len(g) - 1) : lexBefore(g[k], g[k + 1])

C15_Witness ==
    /\ variant = "part_000" /\ gN = 3 /\ gPc = "build" /\ gRounds = <<>>
    /\ [k \in 1..Len(gRemaining) |-> gRemaining[k].teams] = <<<<1, 2>>, <<1, 3>>, <<2, 3>>>>

\* C16: for every team count 4..15 and every variant, when the generator has
\* returned, no two of the pairs it left unscheduled are team-disjoint (no
\* further full round could have been formed).
unscheduled ==
    LET ps == pairsOf(gSchedule)
    IN  {p \in (1..gN) \X (1..gN) :
            p[1] < p[2] /\ \A k \in 1..Len(ps) : ps[k] # p}

C16_LeftoversIntersect ==
    gPc = "done" =>
        \A p, q \in unscheduled : {p[1], p[2]} \cap {q[1], q[2]} # {}

\* C17: in App.js scheduleRounds, every round appended after round 1 has on
\* court 1 a pair that was unscheduled at the start of the iteration, whose
\* sum of played counts at that moment is minimal among the unscheduled
\* pairs, and which stood before every other pair of that sum in the list
\* as it was before the sort.
C17_CourtOneLeastPlayed ==
    [][(variant = "App.js" /\ gPc = "build" /\ Len(gRounds') = Len(gRounds) + 1) =>
          LET first == gRounds'[Len(gRounds')][1].teams
              sum(p) == gCount[p[1]] + gCount[p[2]]
          IN  \E k \in 1..Len(gRemaining) :
                 /\ gRemaining[k] = first
                 /\ \A j \in 1..Len(gRemaining) : sum(gRemaining[j]) >= sum(first)
                 /\ \A j \in 1..(k - 1) : sum(gRemaining[j]) > sum(first)]_vars

\* More than 20 rounds were appended, and the list left by the last one is
\* not in ascending order of the sums: the sort of the next round reorders.
C17_Witness ==
    /\ variant = "App.js" /\ gPc = "build" /\ gN = MaxTeams
    /\ Len(gRounds) > 20
    /\ \E i, j \in 1..Len(gRemaining) :
          i < j /\ gCount[gRemaining[i][1]] + gCount[gRemaining[i][2]]
                    > gCount[gRemaining[j][1]] + gCount[gRemaining[j][2]]

\* C18: a toggle addressed to (roundIndex, courtIndex) leaves the flag of
\* every other match, every match's team pair, the order of rounds and
\* matches, and the team count as they were.
C18_ToggleFrame ==
    [][lastEvent'.op = "toggle" =>
        /\ Positions' = Positions
        /\ \A p \in Positions :
              <<p[1] - 1, p[2] - 1>> # lastEvent'.at =>
                  completeAt(p[1], p[2])' = completeAt(p[1], p[2])
        /\ Schedule' = Schedule
        /\ teamCount' = teamCount]_vars

\* A toggle that marked a third match while two others were complete, and
\* stayed so.
C18_Witness ==
    /\ lastEvent.op = "toggle" /\ lastEvent.at # NoMatch
    /\ lastEvent.before = 2 /\ completeCount = 3

\* C19: no toggle is lost: when toggles of two distinct matches are both
\* handled, in either order and without a render between them, the flags of
\* both matches are flipped afterwards (and no other flag).
C19_NoToggleLost ==
    [][lastEvent'.op = "toggles" =>
        Flags' = flippedAt(flippedAt(Flags, lastEvent'.at[1]), lastEvent'.at[2])]_vars

\* C20: whenever the component is at rest (every effect has run) the
\* schedule shown has at least one round and every team id in it is one of
\* 1..teamCount.
C20_ScheduleShown ==
    /\ Len(rounds) > 0
    /\ \A p \in Positions :
          {Schedule[p[1]][p[2]][1], Schedule[p[1]][p[2]][2]} \subseteq 1..teamCount

====
